---- MODULE Spec2Model ----
(***************************************************************************)
(* A model of pkska/ddbutil.py: the key rule engine                        *)
(* (generate_keys_with_rules) and the Dao built on it (add, get, update,   *)
(* query_pk, query_beg, query_cond) over one table of a key-value store.   *)
(*                                                                         *)
(* Python strings are sequences of one-character strings, so that          *)
(* startswith, slicing, "#".join and begins_with are computed, not         *)
(* assumed.  A Python scalar is a record [t, v]: t is "none", "int" or     *)
(* "str" and v is the number or the sequence of characters.  A Python      *)
(* dict is a function from names (strings) to scalars.                     *)
(***************************************************************************)
EXTENDS Integers, Sequences, FiniteSets, TLC

VARIABLES spec, rules, table, op, result, callers

vars == <<spec, rules, table, op, result, callers>>

(***************************************************************************)
(* Scalars and strings                                                     *)
(***************************************************************************)
None == [t |-> "none", v |-> 0]

PyStr(s) == [t |-> "str", v |-> s]

PyInt(n) == [t |-> "int", v |-> n]

Digit(k) == <<"0", "1", "2", "3", "4", "5", "6", "7", "8", "9">>[k + 1]

RECURSIVE IntStr(_)
IntStr(n) ==
    IF n < 0 THEN <<"-">> \o IntStr(0 - n)
    ELSE IF n < 10 THEN <<Digit(n)>>
    ELSE IntStr(n \div 10) \o <<Digit(n % 10)>>

\* str(val) of line 43
str(val) ==
    IF val.t = "str" THEN val.v
    ELSE IF val.t = "int" THEN IntStr(val.v)
    ELSE <<"N", "o", "n", "e">>

\* field.startswith("!") of line 34
startswith(s, c) == Len(s) > 0 /\ s[1] = c

\* sep.join(parts) of line 45
RECURSIVE join(_, _)
join(sep, parts) ==
    IF parts = <<>> THEN <<>>
    ELSE IF Len(parts) = 1 THEN parts[1]
    ELSE parts[1] \o sep \o join(sep, Tail(parts))

\* the sort-key condition k.begins_with(val) of line 142, on strings
begins_with(s, prefix) ==
    Len(prefix) <= Len(s) /\ SubSeq(s, 1, Len(prefix)) = prefix

(***************************************************************************)
(* The names and texts used below, spelled as character sequences          *)
(***************************************************************************)
S_PK == <<"P", "K">>

S_SK == <<"S", "K">>

S_id == <<"i", "d">>

S_status == <<"s", "t", "a", "t", "u", "s">>

S_ts == <<"t", "s">>

S_kind == <<"k", "i", "n", "d">>

S_note == <<"n", "o", "t", "e">>

L_USER == <<"!", "U", "S", "E", "R">>

L_PROFILE == <<"!", "P", "R", "O", "F", "I", "L", "E">>

L_X == <<"!", "X">>

L_ORDER == <<"!", "O">>

S_ACTIVE == <<"A", "C", "T", "I", "V", "E">>

(***************************************************************************)
(* Outcomes of a call: what it returned, or the exception it raised        *)
(***************************************************************************)
\* the empty dict
empty_dict == [k \in {} |-> None]

\* a call that returned None (add, update, and get when nothing is stored)
ReturnedNone ==
    [exc |-> "none", kind |-> "None", val |-> empty_dict, items |-> {}]

\* a call that returned a value object, as its dict
ReturnedValue(x) ==
    [exc |-> "none", kind |-> "value", val |-> x, items |-> {}]

\* a call that returned the list of items of a query
ReturnedItems(xs) ==
    [exc |-> "none", kind |-> "items", val |-> empty_dict, items |-> xs]

\* a call that returned the whole response of a query, which holds Items
ReturnedResponse(xs) ==
    [exc |-> "none", kind |-> "response", val |-> empty_dict, items |-> xs]

\* a call that raised
Raised(e) ==
    [exc |-> e, kind |-> "None", val |-> empty_dict, items |-> {}]

KeyError == "KeyError"

ConditionalCheckFailed == "ConditionalCheckFailedException"

(***************************************************************************)
(* Key rule engine                                                         *)
(***************************************************************************)
\* walk_fields with `continue` in place of `break` at a None field
RECURSIVE walk_fields_continue(_, _, _)
walk_fields_continue(rulefields, d, parts) ==
    IF rulefields = <<>> THEN [exc |-> "none", parts |-> parts]
    ELSE LET field == Head(rulefields) IN
        IF startswith(field, "!")
        THEN walk_fields_continue(Tail(rulefields), d,
                                  Append(parts, Tail(field)))
        ELSE IF field \notin DOMAIN d THEN [exc |-> KeyError, parts |-> <<>>]
        ELSE IF d[field] = None
        THEN walk_fields_continue(Tail(rulefields), d, parts)
        ELSE walk_fields_continue(Tail(rulefields), d,
                                  parts \o <<field, str(d[field])>>)

\* walk_fields without parts.append(field): a field appends its value only
RECURSIVE walk_fields_value_only(_, _, _)
walk_fields_value_only(rulefields, d, parts) ==
    IF rulefields = <<>> THEN [exc |-> "none", parts |-> parts]
    ELSE LET field == Head(rulefields) IN
        IF startswith(field, "!")
        THEN walk_fields_value_only(Tail(rulefields), d,
                                    Append(parts, Tail(field)))
        ELSE IF field \notin DOMAIN d THEN [exc |-> KeyError, parts |-> <<>>]
        ELSE IF d[field] = None THEN [exc |-> "none", parts |-> parts]
        ELSE walk_fields_value_only(Tail(rulefields), d,
                                    Append(parts, str(d[field])))

\* walk_fields with d.get(field) in place of d[field]: an absent field is
\* None
RECURSIVE walk_fields_get(_, _, _)
walk_fields_get(rulefields, d, parts) ==
    IF rulefields = <<>> THEN [exc |-> "none", parts |-> parts]
    ELSE LET field == Head(rulefields) IN
        IF startswith(field, "!")
        THEN walk_fields_get(Tail(rulefields), d, Append(parts, Tail(field)))
        ELSE IF field \notin DOMAIN d \/ d[field] = None
        THEN [exc |-> "none", parts |-> parts]
        ELSE walk_fields_get(Tail(rulefields), d,
                             parts \o <<field, str(d[field])>>)

\* walk_fields appending the name of a field twice, in place of its name
\* and str of its value
RECURSIVE walk_fields_name_only(_, _, _)
walk_fields_name_only(rulefields, d, parts) ==
    IF rulefields = <<>> THEN [exc |-> "none", parts |-> parts]
    ELSE LET field == Head(rulefields) IN
        IF startswith(field, "!")
        THEN walk_fields_name_only(Tail(rulefields), d,
                                   Append(parts, Tail(field)))
        ELSE IF field \notin DOMAIN d THEN [exc |-> KeyError, parts |-> <<>>]
        ELSE IF d[field] = None THEN [exc |-> "none", parts |-> parts]
        ELSE walk_fields_name_only(Tail(rulefields), d,
                                   parts \o <<field, field>>)

\* The inner loop of generate_keys_with_rules over one rule's fields, from
\* the fields still to walk and the parts appended so far.  A literal
\* appends its text without the "!"; a field absent from d raises KeyError;
\* a field that is None ends the walk; any other field appends its name and
\* str of its value.
RECURSIVE walk_fields(_, _, _)
walk_fields(rulefields, d, parts) ==
    IF rulefields = <<>> THEN [exc |-> "none", parts |-> parts]
    ELSE LET field == Head(rulefields) IN
        IF startswith(field, "!")
        THEN walk_fields(Tail(rulefields), d, Append(parts, Tail(field)))
        ELSE IF field \notin DOMAIN d THEN [exc |-> KeyError, parts |-> <<>>]
        ELSE IF d[field] = None THEN [exc |-> "none", parts |-> parts]
        ELSE walk_fields(Tail(rulefields), d,
                         parts \o <<field, str(d[field])>>)

\* One pass of the outer loop: resp[rulek] = "#".join(parts)
rule_key(rulefields, d) ==
    LET w == walk_fields(rulefields, d, <<>>) IN
    IF w.exc # "none" THEN [exc |-> w.exc, key |-> <<>>]
    ELSE [exc |-> "none", key |-> join(<<"#">>, w.parts)]

\* generate_keys_with_rules(rules, d): the dict resp, one entry per rule
\* name (a later rule of the same name overwrites an earlier one), or the
\* KeyError of the first rule that raises.
generate_keys_with_rules(rs, d) ==
    IF \E i \in 1..Len(rs) : rule_key(rs[i][2], d).exc # "none"
    THEN [exc |-> KeyError, resp |-> empty_dict]
    ELSE [exc |-> "none", resp |->
          [k \in {rs[i][1] : i \in 1..Len(rs)} |->
            LET last == CHOOSE i \in 1..Len(rs) :
                            /\ rs[i][1] = k
                            /\ \A j \in 1..Len(rs) : rs[j][1] = k => j <= i
            IN  PyStr(rule_key(rs[last][2], d).key)]]

(***************************************************************************)
(* Key schema                                                              *)
(***************************************************************************)
TableSpec(pk, sk, type_col) == [pk |-> pk, sk |-> sk, type_col |-> type_col]

KeygenRules(pk, sk) == [pk |-> pk, sk |-> sk]

\* first rule is always pk rule, then sk rule
parse_rules(db, kr) == <<<<db.pk, kr.pk>>, <<db.sk, kr.sk>>>>

(***************************************************************************)
(* Python dicts                                                            *)
(***************************************************************************)
\* d.update(e) of line 92: the entries of e replace or extend those of d
dict_update(d, e) ==
    [k \in DOMAIN d \cup DOMAIN e |-> IF k \in DOMAIN e THEN e[k] ELSE d[k]]

\* the dict with the single entry k: x, as d[k] = x of line 94 needs it
entry(k, x) == [j \in {k} |-> x]

\* truth value of an Optional[str], as `if self.spec.type_col:` of line 93
truthy(val) == val.t = "str" /\ val.v # <<>>

(***************************************************************************)
(* The store: one table, an item per primary key (partition, sort).  The   *)
(* table is a function from <<partition string, sort string>> to the item  *)
(* stored there.  Each call below is the one request the Dao issues.       *)
(***************************************************************************)
\* the primary key of an attribute mapping that holds both key attributes
primary_key(db, attrs) == <<attrs[db.pk].v, attrs[db.sk].v>>

\* put_item without its ConditionExpression: the item is written whatever
\* is stored under its key
put_item_unconditional(db, tbl, Item) ==
    LET key == primary_key(db, Item) IN
    [table |-> [k \in DOMAIN tbl \cup {key} |->
                    IF k = key THEN Item ELSE tbl[k]],
     result |-> ReturnedNone]

\* put_item whose condition is evaluated on the partition: it fails when
\* any stored item has Item's partition string
put_item_partition_clash(db, tbl, Item) ==
    LET key == primary_key(db, Item) IN
    IF \E k \in DOMAIN tbl : k[1] = key[1]
    THEN [table |-> tbl, result |-> Raised(ConditionalCheckFailed)]
    ELSE [table |-> [k \in DOMAIN tbl \cup {key} |->
                        IF k = key THEN Item ELSE tbl[k]],
          result |-> ReturnedNone]

\* put_item(Item=d, ConditionExpression="attribute_not_exists(pk)"): the
\* condition is evaluated on the item stored under Item's primary key; it
\* holds when there is none (a stored item always has its partition
\* attribute).  One atomic step of the store.
put_item(db, tbl, Item) ==
    LET key == primary_key(db, Item) IN
    IF key \in DOMAIN tbl /\ db.pk \in DOMAIN tbl[key]
    THEN [table |-> tbl, result |-> Raised(ConditionalCheckFailed)]
    ELSE [table |-> [k \in DOMAIN tbl \cup {key} |->
                        IF k = key THEN Item ELSE tbl[k]],
          result |-> ReturnedNone]

\* get_item(Key=key): the response, which holds the item stored under key
\* as "Item", or nothing
get_item(db, tbl, Key) ==
    LET key == primary_key(db, Key) IN
    IF key \in DOMAIN tbl THEN [Item |-> tbl[key]] ELSE [NoItem |-> TRUE]

\* update_item without its ConditionExpression: with no item under key the
\* store creates one from the key attributes and the named attributes
update_item_upsert(db, tbl, Key, sets) ==
    LET key == primary_key(db, Key) IN
    [table |-> [k \in DOMAIN tbl \cup {key} |->
                    IF k # key THEN tbl[k]
                    ELSE IF key \in DOMAIN tbl THEN dict_update(tbl[k], sets)
                    ELSE dict_update(Key, sets)],
     result |-> ReturnedNone]

\* update_item that writes the key attributes and the named attributes as
\* the whole item, as a put would
update_item_replace(db, tbl, Key, sets) ==
    LET key == primary_key(db, Key) IN
    IF ~(key \in DOMAIN tbl /\ db.pk \in DOMAIN tbl[key])
    THEN [table |-> tbl, result |-> Raised(ConditionalCheckFailed)]
    ELSE [table |-> [k \in DOMAIN tbl |->
                        IF k = key THEN dict_update(Key, sets) ELSE tbl[k]],
          result |-> ReturnedNone]

\* update_item(Key=key, UpdateExpression="set #attr0 = :val0, ...",
\* ConditionExpression="attribute_exists(pk)"): fails the condition when no
\* item is stored under key, else sets the named attributes of that item.
update_item(db, tbl, Key, sets) ==
    LET key == primary_key(db, Key) IN
    IF ~(key \in DOMAIN tbl /\ db.pk \in DOMAIN tbl[key])
    THEN [table |-> tbl, result |-> Raised(ConditionalCheckFailed)]
    ELSE [table |-> [k \in DOMAIN tbl |->
                        IF k = key THEN dict_update(tbl[k], sets) ELSE tbl[k]],
          result |-> ReturnedNone]

\* the condition a cond_function builds from Key(sk) and the sort value
sort_cond(cond, skattr, val) ==
    IF cond = "begins_with" THEN begins_with(skattr, val)
    ELSE skattr = val

\* query without its key condition: every item of the table
query_eq_all(db, tbl, pkval) == {tbl[k] : k \in DOMAIN tbl}

\* query(KeyConditionExpression=Key(pk).eq(pkval)): the items of a partition
query_eq(db, tbl, pkval) ==
    {tbl[k] : k \in {j \in DOMAIN tbl : tbl[j][db.pk].v = pkval}}

\* query with Key(pk).eq(pkval) alone: other_cond is dropped
query_and_pk_only(db, tbl, pkval, cond, skval) ==
    {tbl[k] : k \in {j \in DOMAIN tbl : tbl[j][db.pk].v = pkval}}

\* query(KeyConditionExpression=Key(pk).eq(pkval) & other_cond)
query_and(db, tbl, pkval, cond, skval) ==
    {tbl[k] : k \in {j \in DOMAIN tbl :
                        /\ tbl[j][db.pk].v = pkval
                        /\ sort_cond(cond, tbl[j][db.sk].v, skval)}}

(***************************************************************************)
(* Dao                                                                     *)
(***************************************************************************)
\* type(obj).__name__ of line 94
S_Val == <<"V", "a", "l">>

\* the fields of the value class
ValFields == {S_id, S_status, S_ts, S_kind}

\* self.valclass(**got) of line 103: the value built from the attributes of
\* got that are fields of the value class; the others are ignored
valclass(got) == [f \in ValFields \cap DOMAIN got |-> got[f]]

\* Lines 90-94 of Dao.add(obj), from obj.dict(): the item to put, which is
\* obj's dict with the generated keys merged in and then the type column
\* set, or the KeyError of key generation.  No call of the store.
add_item(db, rs, obj) ==
    LET keys == generate_keys_with_rules(rs, obj) IN
    IF keys.exc # "none" THEN [exc |-> keys.exc, d |-> empty_dict]
    ELSE LET d  == dict_update(obj, keys.resp)
             d2 == IF truthy(db.type_col)
                   THEN dict_update(d, entry(db.type_col.v, PyStr(S_Val)))
                   ELSE d
         IN  [exc |-> "none", d |-> d2]

\* Dao.add(obj): the table afterwards and the outcome
Dao_add(db, rs, tbl, obj) ==
    LET it == add_item(db, rs, obj) IN
    IF it.exc # "none" THEN [table |-> tbl, result |-> Raised(it.exc)]
    ELSE put_item(db, tbl, it.d)

\* get refusing a key one of whose fields is None, in place of generating
\* the truncated key
Dao_get_require_complete(db, rs, tbl, keyd) ==
    LET key == generate_keys_with_rules(rs, keyd) IN
    IF key.exc # "none" THEN [table |-> tbl, result |-> Raised(key.exc)]
    ELSE IF \E f \in DOMAIN keyd : keyd[f] = None
    THEN [table |-> tbl, result |-> Raised("ValueError")]
    ELSE LET got == get_item(db, tbl, key.resp) IN
         [table |-> tbl,
          result |-> IF "Item" \notin DOMAIN got THEN ReturnedNone
                     ELSE ReturnedValue(valclass(got.Item))]

\* Dao.get(key), from key.dict()
Dao_get(db, rs, tbl, keyd) ==
    LET key == generate_keys_with_rules(rs, keyd) IN
    IF key.exc # "none" THEN [table |-> tbl, result |-> Raised(key.exc)]
    ELSE LET got == get_item(db, tbl, key.resp) IN
         [table |-> tbl,
          result |-> IF "Item" \notin DOMAIN got THEN ReturnedNone
                     ELSE ReturnedValue(valclass(got.Item))]

\* Dao.update(key, update_dict), from key.dict()
Dao_update(db, rs, tbl, keyd, update_dict) ==
    LET key == generate_keys_with_rules(rs, keyd) IN
    IF key.exc # "none" THEN [table |-> tbl, result |-> Raised(key.exc)]
    ELSE update_item(db, tbl, key.resp, update_dict)

\* query_pk generating the key with both rules, self.rules, in place of
\* [self.rules[0]]
Dao_query_pk_all_rules(db, rs, tbl, keyd) ==
    LET pk == generate_keys_with_rules(rs, keyd) IN
    IF pk.exc # "none" THEN [table |-> tbl, result |-> Raised(pk.exc)]
    ELSE [table |-> tbl,
          result |-> ReturnedResponse(query_eq(db, tbl, pk.resp[db.pk].v))]

\* Dao.query_pk(key): the whole response of the query, which holds Items
Dao_query_pk(db, rs, tbl, keyd) ==
    LET pk == generate_keys_with_rules(<<rs[1]>>, keyd) IN
    IF pk.exc # "none" THEN [table |-> tbl, result |-> Raised(pk.exc)]
    ELSE [table |-> tbl,
          result |-> ReturnedResponse(query_eq(db, tbl, pk.resp[db.pk].v))]

\* Dao.query_cond(key, cond_function): res.get("Items")
Dao_query_cond(db, rs, tbl, keyd, cond) ==
    LET pk == generate_keys_with_rules(<<rs[1]>>, keyd) IN
    IF pk.exc # "none" THEN [table |-> tbl, result |-> Raised(pk.exc)]
    ELSE LET sk == generate_keys_with_rules(<<rs[2]>>, keyd) IN
         IF sk.exc # "none" THEN [table |-> tbl, result |-> Raised(sk.exc)]
         ELSE [table |-> tbl,
               result |-> ReturnedItems(query_and(db, tbl, pk.resp[db.pk].v,
                                                  cond, sk.resp[db.sk].v))]

\* query_beg with k.eq(val) in place of k.begins_with(val)
Dao_query_beg_eq(db, rs, tbl, keyd) ==
    Dao_query_cond(db, rs, tbl, keyd, "eq")

\* Dao.query_beg(key)
Dao_query_beg(db, rs, tbl, keyd) ==
    Dao_query_cond(db, rs, tbl, keyd, "begins_with")

(***************************************************************************)
(* Configuration and inputs                                                *)
(***************************************************************************)
\* the most items the table holds in the model
MaxItems == 2

S_type == <<"t", "y", "p", "e">>

\* TableSpec(name) with the default key attribute names, without a type
\* column, with a type column of its own name, and with a type column
\* named as a field of the value class
TableSpecs ==
    {TableSpec(S_PK, S_SK, None),
     TableSpec(S_PK, S_SK, PyStr(S_type)),
     TableSpec(S_PK, S_SK, PyStr(S_kind))}

\* valclass.get_rules(): the rules of the value class; the partition is
\* USER#id#<id>, the sort string O#status#<status>#ts#<ts>
ValRules == KeygenRules(<<L_USER, S_id>>, <<L_ORDER, S_status, S_ts>>)

\* the values a field takes in the model
FieldVals(f) ==
    IF f = S_id THEN {PyStr(<<"4">>), PyStr(<<"7">>)}
    ELSE IF f = S_status THEN {None, PyStr(<<"A">>)}
    ELSE IF f = S_ts THEN {None, PyInt(1)}
    ELSE IF f = S_kind THEN {PyStr(<<"x">>)}
    ELSE {PyStr(<<"n">>)}

AllVals ==
    UNION {FieldVals(f) : f \in {S_id, S_status, S_ts, S_kind, S_note}}

\* the dicts over the fields of shape
Dicts(shape) ==
    {d \in [shape -> AllVals] : \A f \in shape : d[f] \in FieldVals(f)}

\* obj.dict() of the objects passed to add: objects of the value class, and
\* objects of a class without the field ts
Objs == Dicts(ValFields) \cup Dicts(ValFields \ {S_ts})

\* key.dict() of the keys passed to get, update and the queries: keys with
\* every key field, and keys of classes without ts, or without status and ts
KeyDicts ==
    Dicts({S_id, S_status, S_ts}) \cup Dicts({S_id, S_status})
        \cup Dicts({S_id})

\* the update_dict arguments of update: one attribute, new to the item,
\* and two attributes, one of them a field the sort rule refers to
UpdateDicts ==
    {entry(S_note, PyStr(<<"n">>)),
     [f \in {S_status, S_note} |->
        IF f = S_status THEN PyStr(<<"B">>) ELSE PyStr(<<"n">>)]}

\* the cond_function arguments of query_cond: begins_with and eq
Conds == {"begins_with", "eq"}

\* the last call: its name and arguments
Call(name, arg, upd, cond) ==
    [name |-> name, arg |-> arg, upd |-> upd, cond |-> cond]

(***************************************************************************)
(* The Dao in use by one caller at a time                                  *)
(***************************************************************************)
\* no call is in progress
Idle == Call("idle", empty_dict, empty_dict, "")

\* Dao.__init__: the rules of the value class paired with the key attribute
\* names of the table; the table starts empty and nothing has been called.
\* A call runs from the idle caller to its outcome, which op and result then
\* hold until the caller takes it (returned).
Init ==
    /\ spec \in TableSpecs
    /\ rules = parse_rules(spec, ValRules)
    /\ table = empty_dict
    /\ op = Idle
    /\ result = ReturnedNone
    /\ callers = <<>>

add(obj) ==
    LET r == Dao_add(spec, rules, table, obj) IN
    /\ op = Idle
    /\ Cardinality(DOMAIN r.table) <= MaxItems
    /\ table' = r.table
    /\ result' = r.result
    /\ op' = Call("add", obj, empty_dict, "")
    /\ UNCHANGED <<spec, rules, callers>>

get(keyd) ==
    LET r == Dao_get(spec, rules, table, keyd) IN
    /\ op = Idle
    /\ table' = r.table
    /\ result' = r.result
    /\ op' = Call("get", keyd, empty_dict, "")
    /\ UNCHANGED <<spec, rules, callers>>

update(keyd, update_dict) ==
    LET r == Dao_update(spec, rules, table, keyd, update_dict) IN
    /\ op = Idle
    /\ table' = r.table
    /\ result' = r.result
    /\ op' = Call("update", keyd, update_dict, "")
    /\ UNCHANGED <<spec, rules, callers>>

query_pk(keyd) ==
    LET r == Dao_query_pk(spec, rules, table, keyd) IN
    /\ op = Idle
    /\ table' = r.table
    /\ result' = r.result
    /\ op' = Call("query_pk", keyd, empty_dict, "")
    /\ UNCHANGED <<spec, rules, callers>>

query_beg(keyd) ==
    LET r == Dao_query_beg(spec, rules, table, keyd) IN
    /\ op = Idle
    /\ table' = r.table
    /\ result' = r.result
    /\ op' = Call("query_beg", keyd, empty_dict, "")
    /\ UNCHANGED <<spec, rules, callers>>

query_cond(keyd, cond) ==
    LET r == Dao_query_cond(spec, rules, table, keyd, cond) IN
    /\ op = Idle
    /\ table' = r.table
    /\ result' = r.result
    /\ op' = Call("query_cond", keyd, empty_dict, cond)
    /\ UNCHANGED <<spec, rules, callers>>

\* the caller takes the outcome of its call
returned ==
    /\ op # Idle
    /\ op' = Idle
    /\ result' = ReturnedNone
    /\ UNCHANGED <<spec, rules, table, callers>>

Next ==
    \/ \E obj \in Objs : add(obj)
    \/ \E keyd \in KeyDicts : get(keyd)
    \/ \E keyd \in KeyDicts : \E update_dict \in UpdateDicts :
            update(keyd, update_dict)
    \/ \E keyd \in KeyDicts : query_pk(keyd)
    \/ \E keyd \in KeyDicts : query_beg(keyd)
    \/ \E keyd \in KeyDicts : \E cond \in Conds : query_cond(keyd, cond)
    \/ returned

Spec == Init /\ [][Next]_vars

(***************************************************************************)
(* The key rule engine alone, over rules and dicts of every shape          *)
(***************************************************************************)
\* the rules the engine is run with: literals and fields in every order,
\* among them those of the documented examples
GenKeygenRules ==
    {KeygenRules(pk, sk) :
        pk \in {<<L_USER, S_id>>, <<S_id>>, <<>>},
        sk \in {<<L_PROFILE>>, <<S_status, S_ts>>, <<S_status, L_X, S_ts>>,
                <<L_X, S_ts, S_status>>}}

GenFieldVals(f) ==
    IF f = S_id THEN {None, PyStr(<<"4", "2">>), PyInt(42)}
    ELSE IF f = S_status THEN {None, PyStr(S_ACTIVE)}
    ELSE {None, PyInt(1)}

GenAllVals == UNION {GenFieldVals(f) : f \in {S_id, S_status, S_ts}}

\* the dicts the engine is run on: every subset of the fields present
GenDicts ==
    UNION {{d \in [shape -> GenAllVals] :
                \A f \in shape : d[f] \in GenFieldVals(f)} :
           shape \in SUBSET {S_id, S_status, S_ts}}

InitGen ==
    /\ spec = TableSpec(S_PK, S_SK, None)
    /\ rules \in {parse_rules(spec, kr) : kr \in GenKeygenRules}
    /\ table = empty_dict
    /\ op = Idle
    /\ result = ReturnedNone
    /\ callers = <<>>

\* a call of generate_keys_with_rules(rules, d)
generate(d) ==
    LET r == generate_keys_with_rules(rules, d) IN
    /\ op = Idle
    /\ op' = Call("generate", d, empty_dict, "")
    /\ result' = IF r.exc # "none" THEN Raised(r.exc)
                 ELSE ReturnedValue(r.resp)
    /\ UNCHANGED <<spec, rules, table, callers>>

NextGen ==
    \/ \E d \in GenDicts : generate(d)
    \/ returned

SpecGen == InitGen /\ [][NextGen]_vars

(***************************************************************************)
(* Concurrent callers of add.  A caller runs lines 90-94 on its own (no    *)
(* shared state), then issues the one conditional put, which the store     *)
(* executes atomically.                                                    *)
(***************************************************************************)
\* the number of concurrent callers
NumCallers == 2

\* the objects the callers add: two keys, each with two different payloads,
\* and an object whose class has no id
ConcObjs ==
    {o \in Objs : /\ DOMAIN o = ValFields => (o[S_status] # None /\ o[S_ts] # None)
                  /\ DOMAIN o # ValFields => o[S_status] # None}
        \cup {[o EXCEPT ![S_kind] = PyStr(<<"y">>)] :
                o \in {x \in Dicts(ValFields) :
                          x[S_status] # None /\ x[S_ts] # None}}

InitConc ==
    /\ spec \in TableSpecs
    /\ rules = parse_rules(spec, ValRules)
    /\ table = empty_dict
    /\ op = Idle
    /\ result = ReturnedNone
    /\ callers = [c \in 1..NumCallers |->
                    [pc |-> "start", d |-> empty_dict, exc |-> "none"]]

\* lines 90-94 of add, run by caller c
add_begin(c, obj) ==
    LET it == add_item(spec, rules, obj) IN
    /\ callers[c].pc = "start"
    /\ callers' = [callers EXCEPT ![c] =
                    IF it.exc # "none"
                    THEN [pc |-> "done", d |-> obj, exc |-> it.exc]
                    ELSE [pc |-> "put", d |-> it.d, exc |-> "none"]]
    /\ UNCHANGED <<spec, rules, table, op, result>>

\* line 95 of add, issued by caller c: the conditional put
add_put(c) ==
    LET r == put_item(spec, table, callers[c].d) IN
    /\ callers[c].pc = "put"
    /\ table' = r.table
    /\ callers' = [callers EXCEPT ![c] =
                    [pc |-> "done", d |-> callers[c].d, exc |-> r.result.exc]]
    /\ UNCHANGED <<spec, rules, op, result>>

NextConc ==
    \/ \E c \in 1..NumCallers : \E obj \in ConcObjs : add_begin(c, obj)
    \/ \E c \in 1..NumCallers : add_put(c)

SpecConc == InitConc /\ [][NextConc]_vars

(***************************************************************************)
(* Properties of the key rule engine (checked under SpecGen)               *)
(***************************************************************************)
\* token j of a rule is a field reference that resolves to None in d
null_at(fields, d, j) ==
    /\ ~startswith(fields[j], "!")
    /\ fields[j] \in DOMAIN d
    /\ d[fields[j]] = None

\* a rule run on its own
alone(rs, i, d) == generate_keys_with_rules(<<rs[i]>>, d)

\* C5 (truncation law): when a field reference of a rule resolves to None,
\* the string generated for that rule is the string generated by the rule
\* cut down to the tokens before it, whatever follows (a literal, a field,
\* even a field d does not hold); the call raises only if the cut rule or
\* another rule raises, and every other rule yields what it yields alone.
C5_TruncationLaw ==
    op.name = "generate" =>
        \A i \in 1..Len(rules) : \A j \in 1..Len(rules[i][2]) :
            null_at(rules[i][2], op.arg, j) =>
                LET k   == rules[i][1]
                    cut == rule_key(SubSeq(rules[i][2], 1, j - 1), op.arg)
                    others == {x \in 1..Len(rules) : x # i}
                IN  /\ result.exc = "none" <=>
                            /\ cut.exc = "none"
                            /\ \A x \in others :
                                    alone(rules, x, op.arg).exc = "none"
                    /\ result.exc = "none" =>
                            /\ result.val[k].v = cut.key
                            /\ \A x \in others :
                                    result.val[rules[x][1]] =
                                        alone(rules, x, op.arg).resp[rules[x][1]]

\* a call that returned, in which a rule stopped at a None field after at
\* least one appended token and before further tokens
C5_Witness ==
    /\ op.name = "generate"
    /\ result.exc = "none"
    /\ \E i \in 1..Len(rules) : \E j \in 2..(Len(rules[i][2]) - 1) :
            /\ null_at(rules[i][2], op.arg, j)
            /\ result.val[rules[i][1]].v # <<>>
            /\ \E x \in (j + 1)..Len(rules[i][2]) :
                    rules[i][2][x] \notin DOMAIN op.arg

\* the position of the first field reference of a rule that is None in d,
\* or one past the rule's end
first_null(fields, d) ==
    LET nulls == {j \in 1..Len(fields) : null_at(fields, d, j)} IN
    IF nulls = {} THEN Len(fields) + 1
    ELSE CHOOSE j \in nulls : \A x \in nulls : j <= x

\* what a token emits: a literal its text, a field its name and its value
emit(tok, d) ==
    IF startswith(tok, "!") THEN <<Tail(tok)>> ELSE <<tok, str(d[tok])>>

RECURSIVE concat_all(_)
concat_all(ss) == IF ss = <<>> THEN <<>> ELSE Head(ss) \o concat_all(Tail(ss))

\* the documented format of a key: the tokens before the first None field,
\* each emitted, joined with "#"
key_format(fields, d) ==
    join(<<"#">>,
         concat_all([j \in 1..(first_null(fields, d) - 1) |->
                        emit(fields[j], d)]))

\* every field a rule refers to is in d
all_present(rs, d) ==
    \A i \in 1..Len(rs) : \A j \in 1..Len(rs[i][2]) :
        startswith(rs[i][2][j], "!") \/ rs[i][2][j] \in DOMAIN d

\* the general statement of C6
key_format_holds ==
    (op.name = "generate" /\ all_present(rules, op.arg)) =>
        /\ result.exc = "none"
        /\ \A i \in 1..Len(rules) :
                result.val[rules[i][1]].v = key_format(rules[i][2], op.arg)

\* the first documented example: pk = [literal USER, field id],
\* sk = [literal PROFILE], attrs {id: "42"}
example_user ==
    /\ op.name = "generate"
    /\ rules = parse_rules(spec, KeygenRules(<<L_USER, S_id>>, <<L_PROFILE>>))
    /\ op.arg = entry(S_id, PyStr(<<"4", "2">>))

\* the second documented example: sk = [field status, field ts],
\* attrs {status: "ACTIVE", ts: null}
example_status ==
    /\ op.name = "generate"
    /\ rules[2][2] = <<S_status, S_ts>>
    /\ DOMAIN op.arg = {S_status, S_ts}
    /\ op.arg[S_status] = PyStr(S_ACTIVE)
    /\ op.arg[S_ts] = None
    /\ result.exc = "none"

example_status_holds ==
    example_status => result.val[S_SK].v = S_status \o <<"#">> \o S_ACTIVE

\* C6 (key format), as amended: with no referenced field absent, each key
\* is its rule's tokens up to the first None field, a literal emitting its
\* text and a field its name and then str of its value, joined with "#";
\* the USER example gives partition USER#id#42 and sort PROFILE, the status
\* example gives sort status#ACTIVE.
C6_KeyFormat ==
    /\ key_format_holds
    /\ example_user =>
            /\ result.exc = "none"
            /\ result.val[S_PK].v =
                    Tail(L_USER) \o <<"#">> \o S_id \o <<"#", "4", "2">>
            /\ result.val[S_SK].v = Tail(L_PROFILE)
    /\ example_status_holds

\* C6 as stated: the same, with the USER example giving partition USER#42
C6_Original ==
    /\ key_format_holds
    /\ example_user =>
            /\ result.exc = "none"
            /\ result.val[S_PK].v = Tail(L_USER) \o <<"#", "4", "2">>
            /\ result.val[S_SK].v = Tail(L_PROFILE)
    /\ example_status_holds

\* the USER example has been run
C6_Witness == example_user /\ result.exc = "none"

(***************************************************************************)
(* Properties of the Dao with one caller (checked under Spec)              *)
(***************************************************************************)
\* the primary key add stores obj under
add_key(obj) == primary_key(spec, add_item(spec, rules, obj).d)

\* the primary key get and update address with keyd
call_key(keyd) ==
    primary_key(spec, generate_keys_with_rules(rules, keyd).resp)

\* C1 (duplicate rejection): an add whose generated partition+sort key is
\* the key of a stored item (stored by an earlier, successful add) fails
\* the condition of its put and leaves the table as it was.
C1_DuplicateRejection ==
    [][(/\ op'.name = "add"
        /\ add_item(spec, rules, op'.arg).exc = "none"
        /\ add_key(op'.arg) \in DOMAIN table)
       => (/\ result'.exc = ConditionalCheckFailed
           /\ table' = table)]_vars

\* add(v) has just failed on the item an earlier add(v) stored
C1_Witness ==
    /\ op.name = "add"
    /\ result.exc = ConditionalCheckFailed
    /\ add_key(op.arg) \in DOMAIN table
    /\ table[add_key(op.arg)] = add_item(spec, rules, op.arg).d

\* the fields the sort rule refers to
sort_fields == {rules[2][2][j] : j \in {x \in 1..Len(rules[2][2]) :
                                            ~startswith(rules[2][2][x], "!")}}

\* the fields either rule refers to
key_fields ==
    UNION {{rules[i][2][j] : j \in {x \in 1..Len(rules[i][2]) :
                                        ~startswith(rules[i][2][x], "!")}} :
           i \in 1..Len(rules)}

\* keyd carries the same key-field values as the value v
key_equivalent(keyd, v) ==
    /\ key_fields \subseteq DOMAIN keyd
    /\ \A f \in key_fields : keyd[f] = v[f]

\* v is a value of the value class none of whose sort-rule fields is None
complete_value(v) ==
    /\ DOMAIN v = ValFields
    /\ \A f \in sort_fields : v[f] # None

\* C2 (round trip): right after a successful add(v) of a value with no
\* None sort-rule field, get(k), for every k with v's key-field values,
\* returns a value equal to v field by field.
C2_RoundTrip ==
    (op.name = "add" /\ result.exc = "none" /\ complete_value(op.arg)) =>
        \A keyd \in KeyDicts :
            key_equivalent(keyd, op.arg) =>
                Dao_get(spec, rules, table, keyd).result
                    = ReturnedValue(op.arg)

\* C2 where the names the Dao merges into the item (partition, sort and
\* type attribute) are no fields of the value class: the round trip holds
C2_RoundTripDistinctNames ==
    (/\ op.name = "add" /\ result.exc = "none" /\ complete_value(op.arg)
     /\ {spec.pk, spec.sk} \cap ValFields = {}
     /\ truthy(spec.type_col) => spec.type_col.v \notin ValFields) =>
        \A keyd \in KeyDicts :
            key_equivalent(keyd, op.arg) =>
                Dao_get(spec, rules, table, keyd).result
                    = ReturnedValue(op.arg)

\* C3 (update requires existence): an update whose key addresses no stored
\* item fails the condition of its update_item and leaves the table as it
\* was: no item is created.
C3_UpdateRequiresExistence ==
    [][(/\ op'.name = "update"
        /\ generate_keys_with_rules(rules, op'.arg).exc = "none"
        /\ call_key(op'.arg) \notin DOMAIN table)
       => (/\ result'.exc = ConditionalCheckFailed
           /\ table' = table)]_vars

\* an update has just failed on a key with no item, in a table with items
C3_Witness ==
    /\ op.name = "update"
    /\ result.exc = ConditionalCheckFailed
    /\ call_key(op.arg) \notin DOMAIN table
    /\ DOMAIN table # {}

\* C4 (update frame): an update whose key addresses a stored item succeeds;
\* afterwards that item has each attribute named in update_dict at its new
\* value and every other attribute as before, and every other item, and
\* the set of stored keys, is as before.
C4_UpdateFrame ==
    [][(/\ op'.name = "update"
        /\ generate_keys_with_rules(rules, op'.arg).exc = "none"
        /\ call_key(op'.arg) \in DOMAIN table)
       => LET key == call_key(op'.arg) IN
          /\ result'.exc = "none"
          /\ DOMAIN table' = DOMAIN table
          /\ \A k \in DOMAIN table \ {key} : table'[k] = table[k]
          /\ DOMAIN table'[key] = DOMAIN table[key] \cup DOMAIN op'.upd
          /\ \A a \in DOMAIN table'[key] :
                table'[key][a] = IF a \in DOMAIN op'.upd THEN op'.upd[a]
                                 ELSE table[key][a]]_vars

\* an update of two attributes, one of them new to the item, has just
\* succeeded in a table that holds another item
C4_Witness ==
    /\ op.name = "update"
    /\ result.exc = "none"
    /\ Cardinality(DOMAIN op.upd) >= 2
    /\ Cardinality(DOMAIN table) >= 2
    /\ \A a \in DOMAIN op.upd : table[call_key(op.arg)][a] = op.upd[a]

\* the rules a call of the given name generates keys with
used_rules(name) == IF name = "query_pk" THEN <<rules[1]>> ELSE rules

DaoCalls == {"add", "get", "update", "query_pk", "query_beg", "query_cond"}

\* a rule in rs refers to a field that d does not hold
refers_to_absent(rs, d) == ~all_present(rs, d)

\* the walk of a rule in rs reaches a field that d does not hold: no field
\* reference before it in that rule is None in d
reaches_absent(rs, d) ==
    \E i \in 1..Len(rs) : \E j \in 1..Len(rs[i][2]) :
        /\ ~startswith(rs[i][2][j], "!")
        /\ rs[i][2][j] \notin DOMAIN d
        /\ \A x \in 1..(j - 1) : ~null_at(rs[i][2], d, x)

\* C7 (key errors precede I/O), as stated: a call one of whose rules refers
\* to a field absent from the attribute mapping raises KeyError and leaves
\* the table as it was.
C7_Original ==
    [][(op'.name \in DaoCalls
            /\ refers_to_absent(used_rules(op'.name), op'.arg))
       => (result'.exc = KeyError /\ table' = table)]_vars

\* C7 as amended: a call in which the walk of one of its rules reaches a
\* field absent from the attribute mapping (no earlier field reference of
\* that rule being None) raises KeyError and leaves the table as it was.
C7_KeyErrorsPrecedeIO ==
    [][(op'.name \in DaoCalls
            /\ reaches_absent(used_rules(op'.name), op'.arg))
       => (result'.exc = KeyError /\ table' = table)]_vars

\* an add of an object without a field its rules reach has just raised
\* KeyError, in a table with items
C7_Witness ==
    /\ op.name = "add"
    /\ reaches_absent(rules, op.arg)
    /\ result.exc = KeyError
    /\ DOMAIN table # {}

\* p is a string prefix of s
is_prefix(p, s) == \E n \in 0..Len(s) : SubSeq(s, 1, n) = p

\* C8 (partition scoping): query_pk(key), when the partition rule raises no
\* KeyError, returns the response holding all and only the stored items
\* whose partition attribute equals the string the partition rule
\* generates from key.
C8_PartitionScoping ==
    (op.name = "query_pk" /\ rule_key(rules[1][2], op.arg).exc = "none") =>
        LET pkval == rule_key(rules[1][2], op.arg).key IN
        /\ result.exc = "none"
        /\ result.kind = "response"
        /\ result.items =
                {table[k] : k \in {j \in DOMAIN table : j[1] = pkval}}
        /\ \A k \in DOMAIN table :
                table[k] \in result.items <=> table[k][spec.pk].v = pkval

\* a query_pk has just returned one stored item and not another, which is
\* of another partition
C8_Witness ==
    /\ op.name = "query_pk"
    /\ result.exc = "none"
    /\ result.items # {}
    /\ \E k \in DOMAIN table : table[k] \notin result.items

\* C10 (query_beg): query_beg(key) returns what query_cond returns with the
\* begins_with condition: when neither rule raises KeyError, exactly the
\* stored items whose partition attribute equals the string rule 0
\* generates and whose sort attribute has the string rule 1 generates
\* alone, truncated at a None field, as a prefix.
C10_QueryBeginsWith ==
    (/\ op.name = "query_beg"
     /\ rule_key(rules[1][2], op.arg).exc = "none"
     /\ rule_key(rules[2][2], op.arg).exc = "none") =>
        LET pkval == rule_key(rules[1][2], op.arg).key
            skval == rule_key(rules[2][2], op.arg).key
        IN
        /\ result.exc = "none"
        /\ result.kind = "items"
        /\ result =
            Dao_query_cond(spec, rules, table, op.arg, "begins_with").result
        /\ \A k \in DOMAIN table :
                table[k] \in result.items <=>
                    /\ table[k][spec.pk].v = pkval
                    /\ is_prefix(skval, table[k][spec.sk].v)
        /\ \A it \in result.items : \E k \in DOMAIN table : table[k] = it

\* a query_beg with a truncated, non-empty sort string has just returned an
\* item with a longer sort attribute and not another item of the partition
C10_Witness ==
    /\ op.name = "query_beg"
    /\ result.exc = "none"
    /\ \E f \in sort_fields : f \in DOMAIN op.arg /\ op.arg[f] = None
    /\ rule_key(rules[2][2], op.arg).key # <<>>
    /\ \E it \in result.items :
            Len(it[spec.sk].v) > Len(rule_key(rules[2][2], op.arg).key)
    /\ \E k \in DOMAIN table :
            /\ table[k] \notin result.items
            /\ table[k][spec.pk].v = rule_key(rules[1][2], op.arg).key

(***************************************************************************)
(* Properties of concurrent adds (checked under SpecConc)                  *)
(***************************************************************************)
\* caller c has finished its add with the given outcome
finished(c, exc) == callers[c].pc = "done" /\ callers[c].exc = exc

\* C9 (concurrent adds): under every interleaving, of the callers whose
\* items have the same partition+sort key at most one succeeds, a caller
\* fails the condition only when another caller with that key has
\* succeeded, and the item stored under a key is the successful caller's;
\* so once all of them have finished exactly one has succeeded.
C9_ConcurrentAdds ==
    \A c \in DOMAIN callers :
        /\ finished(c, "none") =>
                LET key == primary_key(spec, callers[c].d) IN
                /\ key \in DOMAIN table
                /\ table[key] = callers[c].d
                /\ \A c2 \in DOMAIN callers :
                        (/\ finished(c2, "none")
                         /\ primary_key(spec, callers[c2].d) = key) => c2 = c
        /\ finished(c, ConditionalCheckFailed) =>
                \E c2 \in DOMAIN callers \ {c} :
                    /\ finished(c2, "none")
                    /\ primary_key(spec, callers[c2].d)
                            = primary_key(spec, callers[c].d)
        /\ callers[c].pc = "done" =>
                callers[c].exc \in {"none", ConditionalCheckFailed, KeyError}

\* two callers have finished adds of different items with the same key:
\* one succeeded, the other failed the condition
C9_Witness ==
    \E c \in DOMAIN callers : \E c2 \in DOMAIN callers :
        /\ finished(c, "none")
        /\ finished(c2, ConditionalCheckFailed)
        /\ primary_key(spec, callers[c2].d) = primary_key(spec, callers[c].d)
        /\ callers[c2].d # callers[c].d

(***************************************************************************)
(* Further properties of the Dao with one caller (checked under Spec)      *)
(***************************************************************************)
\* C11 (add is rejected only on a full-key clash): an add whose generated
\* (partition, sort) key is the key of no stored item succeeds and stores
\* the item as built, whatever other items share its partition string; the
\* items already stored stay as they were.
C11_AddOnlyFullKeyClash ==
    [][(/\ op'.name = "add"
        /\ add_item(spec, rules, op'.arg).exc = "none"
        /\ add_key(op'.arg) \notin DOMAIN table)
       => (/\ result'.exc = "none"
           /\ DOMAIN table' = DOMAIN table \cup {add_key(op'.arg)}
           /\ table'[add_key(op'.arg)] = add_item(spec, rules, op'.arg).d
           /\ \A k \in DOMAIN table : table'[k] = table[k])]_vars

\* an add has just succeeded in a table that holds another item of the
\* same partition, under another sort string
C11_Witness ==
    /\ op.name = "add"
    /\ result.exc = "none"
    /\ \E k \in DOMAIN table :
            /\ k[1] = add_key(op.arg)[1]
            /\ k[2] # add_key(op.arg)[2]

\* a sort-rule field is absent from keyd, or None in it
sort_field_absent(keyd) == \E f \in sort_fields : f \notin DOMAIN keyd

sort_field_null(keyd) ==
    \E f \in sort_fields : f \in DOMAIN keyd /\ keyd[f] = None

\* query_pk(keyd) has returned the whole partition of keyd
returned_partition ==
    /\ result.exc = "none"
    /\ result.items =
            {table[k] : k \in {j \in DOMAIN table :
                                j[1] = rule_key(rules[1][2], op.arg).key}}

\* the first half of C12: query_pk with a key in which a sort-rule field is
\* absent or None (and every partition-rule field present) raises nothing
\* and returns the whole partition
query_pk_ignores_sort_rule ==
    (/\ op.name = "query_pk"
     /\ sort_field_absent(op.arg) \/ sort_field_null(op.arg)
     /\ all_present(<<rules[1]>>, op.arg)) => returned_partition

\* C12 as stated: query_pk evaluates the partition rule only, and
\* query_cond (and query_beg), on the same key and when called, raises
\* KeyError when a sort-rule field is absent from the key.
C12_Original ==
    /\ query_pk_ignores_sort_rule
    /\ (op.name = "query_pk" /\ sort_field_absent(op.arg)) =>
            \A cond \in Conds :
                Dao_query_cond(spec, rules, table, op.arg, cond).result.exc
                    = KeyError
    /\ (op.name \in {"query_cond", "query_beg"}
            /\ sort_field_absent(op.arg)) => result.exc = KeyError

\* whether query_cond raises on keyd, by the amended statement: the walk of
\* the sort rule reaches an absent field
sort_walk_raises(keyd) == reaches_absent(<<rules[2]>>, keyd)

\* C12 as amended: query_pk evaluates the partition rule only; query_cond
\* (and query_beg) evaluates both rules and raises KeyError when the walk of
\* the sort rule reaches an absent field, and not when a None field ends
\* the walk before the absent field.
C12_QueryPkPartitionRuleOnly ==
    /\ query_pk_ignores_sort_rule
    /\ (op.name = "query_pk" /\ all_present(<<rules[1]>>, op.arg)) =>
            \A cond \in Conds :
                (Dao_query_cond(spec, rules, table, op.arg, cond).result.exc
                    = KeyError) <=> sort_walk_raises(op.arg)
    /\ (op.name \in {"query_cond", "query_beg"}
            /\ all_present(<<rules[1]>>, op.arg)) =>
            (result.exc = KeyError <=> sort_walk_raises(op.arg))

\* a query_pk with a key that has no sort-rule field at all has just
\* returned two items, and query_cond raises KeyError on that key
C12_Witness ==
    /\ op.name = "query_pk"
    /\ sort_fields \cap DOMAIN op.arg = {}
    /\ result.exc = "none"
    /\ Cardinality(result.items) >= 2
    /\ Dao_query_cond(spec, rules, table, op.arg, "eq").result.exc = KeyError

\* a sort-rule field reference of keyd resolves to None: the walk of the
\* sort rule comes to a None field, every field before it being in keyd,
\* and the partition rule has all its fields, none of them None
incomplete_key(keyd) ==
    /\ all_present(<<rules[1]>>, keyd)
    /\ first_null(rules[1][2], keyd) = Len(rules[1][2]) + 1
    /\ first_null(rules[2][2], keyd) <= Len(rules[2][2])
    /\ ~reaches_absent(<<rules[2]>>, keyd)

\* the (partition, truncated sort) key of keyd
truncated_key(keyd) ==
    <<key_format(rules[1][2], keyd), key_format(rules[2][2], keyd)>>

\* C13 (get with an incomplete key): a get whose key has a sort-rule field
\* that resolves to None raises nothing; it returns None when no item is
\* stored under exactly (partition, truncated sort) and otherwise the value
\* of the item stored under it.
C13_GetIncompleteKey ==
    (op.name = "get" /\ incomplete_key(op.arg)) =>
        /\ result.exc = "none"
        /\ result = IF truncated_key(op.arg) \in DOMAIN table
                    THEN ReturnedValue(
                            valclass(table[truncated_key(op.arg)]))
                    ELSE ReturnedNone

\* a get with status given and ts None has returned the item stored under
\* the truncated key, while another item of the partition has that status
\* and a ts
C13_Witness ==
    /\ op.name = "get"
    /\ incomplete_key(op.arg)
    /\ first_null(rules[2][2], op.arg) = 3
    /\ result.exc = "none"
    /\ result # ReturnedNone
    /\ \E k \in DOMAIN table :
            /\ k # truncated_key(op.arg)
            /\ k[1] = truncated_key(op.arg)[1]
            /\ table[k][S_status] = op.arg[S_status]

\* the key attributes of the item are the strings the rules generate from
\* the item's own attributes
item_consistent(item) ==
    LET g == generate_keys_with_rules(rules, item) IN
    /\ g.exc = "none"
    /\ item[spec.pk] = g.resp[spec.pk]
    /\ item[spec.sk] = g.resp[spec.sk]

stored_keys_consistent(tbl) == \A k \in DOMAIN tbl : item_consistent(tbl[k])

\* neither the key attributes nor the type column are fields the rules
\* refer to
key_columns_apart ==
    /\ {spec.pk, spec.sk} \cap key_fields = {}
    /\ truthy(spec.type_col) => spec.type_col.v \notin key_fields

\* C14 as stated: after any sequence of successful adds and updates, every
\* stored item's partition and sort attributes equal the strings the rules
\* generate from the item's current field values.
C14_Original == stored_keys_consistent(table)

\* C14 as amended: with key attributes and type column that are no fields
\* of the rules, a step stores no inconsistent item and turns no
\* consistent item into an inconsistent one (so a table all of whose items
\* are consistent stays such), unless it is a successful update that names
\* a field the rules refer to; an update leaves the key attributes of its
\* item as they were.
C14_StoredKeyConsistency ==
    [][/\ (/\ key_columns_apart
           /\ ~(/\ op'.name = "update"
                /\ result'.exc = "none"
                /\ DOMAIN op'.upd \cap key_fields # {}))
          => \A k \in DOMAIN table' :
                IF k \notin DOMAIN table THEN item_consistent(table'[k])
                ELSE (table'[k] # table[k] /\ item_consistent(table[k]))
                        => item_consistent(table'[k])
       /\ (op'.name = "update" /\ result'.exc = "none")
          => /\ DOMAIN table' = DOMAIN table
             /\ \A k \in DOMAIN table :
                    /\ table'[k][spec.pk] = table[k][spec.pk]
                    /\ table'[k][spec.sk] = table[k][spec.sk]]_vars

\* an update naming no field of the rules has just succeeded on one of two
\* stored items, both consistent
C14_Witness ==
    /\ op.name = "update"
    /\ result.exc = "none"
    /\ DOMAIN op.upd \cap key_fields = {}
    /\ Cardinality(DOMAIN table) >= 2
    /\ S_note \in DOMAIN table[call_key(op.arg)]
    /\ stored_keys_consistent(table)

(***************************************************************************)
(* The Dao with a sort rule of three fields and values of more kinds: an   *)
(* int and the str of the same digits, a str that extends another, and     *)
(* strs that hold the separator "#"                                        *)
(***************************************************************************)
WideRules ==
    KeygenRules(<<L_USER, S_id>>, <<L_ORDER, S_status, S_ts, S_kind>>)

S_AB == <<"A", "B">>

\* "A#ts#1" and "1#ts#2"
S_A_ts_1 == <<"A", "#", "t", "s", "#", "1">>

S_1_ts_2 == <<"1", "#", "t", "s", "#", "2">>

WideFieldVals(f) ==
    IF f = S_id THEN {PyStr(<<"4">>)}
    ELSE IF f = S_status THEN {PyStr(<<"A">>), PyStr(S_AB)}
    ELSE IF f = S_ts THEN {PyInt(1), PyStr(<<"1">>), PyStr(<<"1", "2">>)}
    ELSE {PyStr(<<"x">>), PyStr(<<"x", "y">>)}

WideAllVals == UNION {WideFieldVals(f) : f \in ValFields}

\* a value of the value class
Val(id, status, ts, kind) ==
    [f \in ValFields |->
        IF f = S_id THEN id ELSE IF f = S_status THEN status
        ELSE IF f = S_ts THEN ts ELSE kind]

\* obj.dict() of the objects passed to add: every field a str or an int,
\* and besides them an object whose ts is None and two objects with "#" in
\* a field
WideObjs ==
    {d \in [ValFields -> WideAllVals] :
        \A f \in ValFields : d[f] \in WideFieldVals(f)}
    \cup {Val(PyStr(<<"4">>), PyStr(<<"A">>), None, PyStr(<<"x">>)),
          Val(PyStr(<<"4">>), PyStr(S_A_ts_1), PyStr(<<"2">>),
              PyStr(<<"x">>)),
          Val(PyStr(<<"4">>), PyStr(<<"A">>), PyStr(S_1_ts_2),
              PyStr(<<"x">>))}

\* key.dict() of the keys passed to query_beg: every key field present,
\* the sort fields None or not
WideKeyDicts ==
    {Val(PyStr(<<"4">>), status, ts, kind) :
        status \in {None, PyStr(<<"A">>), PyStr(S_AB)},
        ts \in {None, PyInt(1), PyStr(<<"1">>)},
        kind \in {None, PyStr(<<"x">>)}}

InitWide ==
    /\ spec = TableSpec(S_PK, S_SK, None)
    /\ rules = parse_rules(spec, WideRules)
    /\ table = empty_dict
    /\ op = Idle
    /\ result = ReturnedNone
    /\ callers = <<>>

NextWide ==
    \/ \E obj \in WideObjs : add(obj)
    \/ \E keyd \in WideKeyDicts : query_beg(keyd)
    \/ returned

SpecWide == InitWide /\ [][NextWide]_vars

(***************************************************************************)
(* Properties of the generated keys over the wider values (checked under   *)
(* SpecWide)                                                               *)
(***************************************************************************)
\* every field the rules refer to is in d and not None
all_non_null(d) ==
    \A f \in key_fields : f \in DOMAIN d /\ d[f] # None

\* the separator "#" occurs in the text s
has_separator(s) == \E i \in 1..Len(s) : s[i] = "#"

\* no value of a rule field of d, as str writes it, holds the separator
separator_free(d) ==
    \A f \in key_fields :
        (f \in DOMAIN d /\ d[f] # None) => ~has_separator(str(d[f]))

\* a and b differ in the value of a field the rules refer to
values_differ(a, b) == \E f \in key_fields : a[f] # b[f]

\* a and b differ in what str writes for a field the rules refer to
texts_differ(a, b) == \E f \in key_fields : str(a[f]) # str(b[f])

\* C15 as stated: an add of a mapping with all rule fields non-null
\* generates a key different from that of every stored item that differs
\* from it in the value of a rule field, so it fails its condition only
\* on an item with the same values.
C15_Original ==
    (op.name = "add" /\ all_non_null(op.arg)) =>
        /\ \A k \in DOMAIN table :
                (all_non_null(table[k]) /\ values_differ(op.arg, table[k]))
                    => k # add_key(op.arg)
        /\ result.exc = ConditionalCheckFailed =>
                ~values_differ(op.arg, table[add_key(op.arg)])

\* C15 as amended: among mappings with all rule fields non-null and no
\* separator in what str writes for them, the added mapping and a stored
\* item have the same key exactly when str writes the same for every rule
\* field; so the add fails its condition on such an item only when the two
\* agree in those texts.
C15_KeyInjectivity ==
    (op.name = "add" /\ all_non_null(op.arg) /\ separator_free(op.arg)) =>
        /\ \A k \in DOMAIN table :
                (all_non_null(table[k]) /\ separator_free(table[k]))
                    => (texts_differ(op.arg, table[k])
                            <=> k # add_key(op.arg))
        /\ (/\ result.exc = ConditionalCheckFailed
            /\ all_non_null(table[add_key(op.arg)])
            /\ separator_free(table[add_key(op.arg)]))
                => ~texts_differ(op.arg, table[add_key(op.arg)])

\* an add has just succeeded beside a stored item that differs from the
\* added one in one rule field only, both without separator
C15_Witness ==
    /\ op.name = "add"
    /\ result.exc = "none"
    /\ all_non_null(op.arg) /\ separator_free(op.arg)
    /\ \E k \in DOMAIN table :
            /\ k # add_key(op.arg)
            /\ all_non_null(table[k]) /\ separator_free(table[k])
            /\ Cardinality({f \in key_fields :
                                str(table[k][f]) # str(op.arg[f])}) = 1

\* the positions of the sort rule's field references before the first one
\* that is None in keyd
leading(keyd) ==
    {j \in 1..(first_null(rules[2][2], keyd) - 1) :
        ~startswith(rules[2][2][j], "!")}

\* the sort-rule fields of keyd are non-null up to a position and None at
\* it, and keyd holds every field the walks look up
null_after_leading(keyd) ==
    /\ first_null(rules[2][2], keyd) <= Len(rules[2][2])
    /\ ~reaches_absent(rules, keyd)

\* C16 as stated: query_beg with a key whose sort-rule fields are non-null
\* up to a position and None after it returns only items whose values for
\* the leading fields equal the key's; an item whose value extends the
\* key's last value is not returned.
C16_Original ==
    (op.name = "query_beg" /\ result.exc = "none"
            /\ null_after_leading(op.arg)) =>
        \A item \in result.items : \A j \in leading(op.arg) :
            item[rules[2][2][j]] = op.arg[rules[2][2][j]]

\* the item agrees with keyd as a prefix query sees it: for the leading
\* fields but the last str writes the same for both, and for the last what
\* str writes for the item begins with what it writes for keyd
prefix_match(keyd, item) ==
    \A j \in leading(keyd) :
        LET f == rules[2][2][j] IN
        /\ item[f] # None
        /\ IF \A x \in leading(keyd) : x <= j
           THEN is_prefix(str(keyd[f]), str(item[f]))
           ELSE str(item[f]) = str(keyd[f])

\* C16 as amended: when no value holds the separator, query_beg with such
\* a key returns exactly the items of the key's partition that agree with
\* the key in what str writes for the leading fields but the last, and
\* whose text for the last leading field begins with the key's: an item
\* whose value extends the key's last value is returned.
C16_PrefixQuery ==
    (op.name = "query_beg" /\ result.exc = "none"
            /\ null_after_leading(op.arg) /\ separator_free(op.arg)) =>
        \A k \in DOMAIN table :
            separator_free(table[k]) =>
                (table[k] \in result.items <=>
                    /\ k[1] = rule_key(rules[1][2], op.arg).key
                    /\ prefix_match(op.arg, table[k]))

\* a query_beg with status and ts given and kind None has returned an item
\* whose ts extends the key's, and has left out a stored item of another
\* status
C16_Witness ==
    /\ op.name = "query_beg"
    /\ result.exc = "none"
    /\ null_after_leading(op.arg) /\ separator_free(op.arg)
    /\ Cardinality(leading(op.arg)) = 2
    /\ \E item \in result.items :
            /\ separator_free(item)
            /\ str(item[S_ts]) # str(op.arg[S_ts])
    /\ \E k \in DOMAIN table :
            separator_free(table[k]) /\ table[k] \notin result.items

(***************************************************************************)
(* The stored keys under every operation (checked under Spec)              *)
(***************************************************************************)
ReadCalls == {"get", "query_pk", "query_cond", "query_beg"}

\* C17 (only add creates items): a successful add adds exactly one key,
\* which was not stored; every other step (a failed add, an update that
\* succeeds or fails, a read, the return of a call) leaves the set of
\* stored keys as it was, and a read or a failed add leaves the table as
\* it was.
C17_OnlyAddCreates ==
    [][/\ (op'.name = "add" /\ result'.exc = "none")
            => /\ add_key(op'.arg) \notin DOMAIN table
               /\ DOMAIN table' = DOMAIN table \cup {add_key(op'.arg)}
       /\ ~(op'.name = "add" /\ result'.exc = "none")
            => DOMAIN table' = DOMAIN table
       /\ (op'.name \in ReadCalls \cup {"idle"}) => table' = table
       /\ (op'.name = "add" /\ result'.exc # "none") => table' = table]_vars

\* an update has just failed for want of an item under its key, in a table
\* that holds two items of the key's partition
C17_Witness ==
    /\ op.name = "update"
    /\ result.exc = ConditionalCheckFailed
    /\ call_key(op.arg) \notin DOMAIN table
    /\ Cardinality({k \in DOMAIN table : k[1] = call_key(op.arg)[1]}) >= 2

====
